---------------------------- MODULE Spec2Model ----------------------------
(***************************************************************************)
(* Chat completion pipeline of the Bio-Agent backend:                      *)
(*   - the conversation store (ChatService with embedded messages,         *)
(*     ConversationService with a separate messages collection; both keep  *)
(*     their conversation documents in the one "conversations" collection),*)
(*   - the streaming engine (LLMService.stream_chat and its backends),     *)
(*   - the per-request orchestration (chat_completions / event_generator). *)
(* Texts are sequences of symbols; string concatenation is \o.             *)
(***************************************************************************)
EXTENDS Integers, Sequences, FiniteSets, TLC

\* ------------------------------------------------------------------ bounds
MaxClock == 3      \* store writes issued through the plain store endpoints
MaxConvs == 2      \* conversations created through the plain create call
MaxLines == 2      \* upstream lines / text deltas one provider stream delivers

\* ------------------------------------------------------------------ inputs
Users    == {"u1", "u2"}
Tasks    == {"t1", "t2"}
Requests == {"r1", "r2"}
Roles    == {"user", "assistant"}
Tags     == {"bio"}
Hello    == <<"Hello">>
Edited   == <<"Edited">>
Placeholder == <<"New conversation">>   \* the placeholder title of line 388
Renamed  == <<"Renamed">>
NoConv   == 0

VARIABLES
    conversations,        \* the "conversations" collection: id -> document
    messages_collection,  \* the "messages" collection: sequence of documents
    clock,                \* datetime.now(), advanced by every store write
    nextConvId,           \* fresh conversation ids (uuid4)
    nextMsgId,            \* fresh message ids (uuid4)
    result,               \* response of the last store call
    cs,                   \* ConversationService calls in flight, per task
    req,                  \* completion requests, per request
    settings,             \* environment keys read by LLMService.__init__
    llm_providers,        \* the "llm_providers" collection: id -> document
    call,                 \* the last call of the engine or of a title function
    service               \* the LLMService object: its clients, its invocations

engineVars == <<llm_providers, call, service>>

vars == <<conversations, messages_collection, clock, nextConvId, nextMsgId,
          result, cs, req, settings, engineVars>>

storeVars == <<conversations, messages_collection, clock, nextConvId, nextMsgId>>

\* ------------------------------------------------------------- store model
ConvIds == DOMAIN conversations

NewConversation(user, title) ==
    [user_id |-> user, title |-> title, messages |-> <<>>, message_count |-> 0,
     created_at |-> clock, updated_at |-> clock,
     is_pinned |-> FALSE, is_favorite |-> FALSE, is_archived |-> FALSE,
     tags |-> {}]

NewMessage(role, content) ==
    [id |-> nextMsgId, role |-> role, content |-> content, created_at |-> clock]

NewMessageDocument(conv, role, content) ==
    [id |-> nextMsgId, conversation_id |-> conv, role |-> role,
     content |-> content, timestamp |-> clock]

\* a filter that names the conversation id only
MatchesAnyOwner(conv, user) == conv \in ConvIds

\* find_one({"id": conversation_id, "user_id": user_id}) matches a document
Matches(conv, user) ==
    conv \in ConvIds /\ conversations[conv].user_id = user

\* what a store call hands back: its outcome, the conversations and the
\* messages it returned
Response(op, user, conv, status, convs, msgs) ==
    [user |-> user, conv |-> conv, status |-> status,
     convs |-> convs, msgs |-> msgs]

\* messages of the messages collection that reference conv
MessagesOf(conv) ==
    LET Ref(m) == m.conversation_id = conv IN SelectSeq(messages_collection, Ref)

EmbeddedIds(conv) ==
    {conversations[conv].messages[i].id : i \in 1..Len(conversations[conv].messages)}

CollectionIds(conv) ==
    {MessagesOf(conv)[i].id : i \in 1..Len(MessagesOf(conv))}

\* update_one(filter, {"$set": fields ∪ {updated_at}}): the changed document
Touch(doc) == [doc EXCEPT !.updated_at = clock]

\* ------------------------------------------------------------- ChatService
\* ChatService.create_conversation
ChatCreate(user) ==
    /\ nextConvId <= MaxConvs
    /\ clock < MaxClock
    /\ conversations' = [c \in ConvIds \cup {nextConvId} |->
          IF c = nextConvId THEN NewConversation(user, Placeholder)
          ELSE conversations[c]]
    /\ nextConvId' = nextConvId + 1
    /\ clock' = clock + 1
    /\ result' = Response("create", user, nextConvId, "ok", {nextConvId}, {})
    /\ UNCHANGED <<messages_collection, nextMsgId, cs, req, settings, engineVars>>

\* ChatService.get_conversation
ChatGet(user, conv) ==
    /\ result' = IF Matches(conv, user)
                 THEN Response("get", user, conv, "ok", {conv}, EmbeddedIds(conv))
                 ELSE Response("get", user, conv, "not_found", {}, {})
    /\ UNCHANGED <<storeVars, cs, req, settings, engineVars>>

\* ChatService.get_conversations
ChatList(user, include_archived) ==
    /\ result' = Response("list", user, NoConv, "ok",
          {c \in ConvIds : /\ conversations[c].user_id = user
                           /\ (include_archived \/ ~conversations[c].is_archived)},
          {})
    /\ UNCHANGED <<storeVars, cs, req, settings, engineVars>>

\* ChatService.search_conversations: the query matches a title or a content
ChatSearch(user, query) ==
    /\ result' = Response("search", user, NoConv, "ok",
          {c \in ConvIds :
              /\ conversations[c].user_id = user
              /\ \/ conversations[c].title = query
                 \/ \E i \in 1..Len(conversations[c].messages) :
                       conversations[c].messages[i].content = query},
          {})
    /\ UNCHANGED <<storeVars, cs, req, settings, engineVars>>

\* the update_one calls of ChatService that $set fields of one document
ChatSet(op, user, conv, doc) ==
    /\ clock < MaxClock
    /\ IF Matches(conv, user)
       THEN /\ conversations' = [conversations EXCEPT ![conv] = Touch(doc)]
            /\ clock' = clock + 1
            /\ result' = Response(op, user, conv, "ok", {conv}, {})
       ELSE /\ result' = Response(op, user, conv, "not_found", {}, {})
            /\ UNCHANGED <<conversations, clock>>
    /\ UNCHANGED <<messages_collection, nextConvId, nextMsgId, cs, req, settings, engineVars>>

Doc(conv) == IF conv \in ConvIds THEN conversations[conv] ELSE NewConversation("", <<>>)

\* ChatService.update_conversation (title patch)
ChatUpdate(user, conv, title) ==
    ChatSet("update", user, conv, [Doc(conv) EXCEPT !.title = title])

\* ChatService.pin_conversation
ChatPin(user, conv, flag) ==
    ChatSet("pin", user, conv, [Doc(conv) EXCEPT !.is_pinned = flag])

\* ChatService.favorite_conversation
ChatFavorite(user, conv, flag) ==
    ChatSet("favorite", user, conv, [Doc(conv) EXCEPT !.is_favorite = flag])

\* ChatService.archive_conversation
ChatArchive(user, conv, flag) ==
    ChatSet("archive", user, conv, [Doc(conv) EXCEPT !.is_archived = flag])

\* ChatService.add_tag ($addToSet)
ChatAddTag(user, conv, tag) ==
    ChatSet("add_tag", user, conv, [Doc(conv) EXCEPT !.tags = @ \cup {tag}])

\* ChatService.remove_tag ($pull)
ChatRemoveTag(user, conv, tag) ==
    ChatSet("remove_tag", user, conv, [Doc(conv) EXCEPT !.tags = @ \ {tag}])

\* ChatService.delete_conversation: delete_one on the conversations collection
ChatDelete(user, conv) ==
    /\ IF Matches(conv, user)
       THEN /\ conversations' = [c \in ConvIds \ {conv} |-> conversations[c]]
            /\ result' = Response("delete", user, conv, "ok", {conv}, {})
       ELSE /\ result' = Response("delete", user, conv, "not_found", {}, {})
            /\ UNCHANGED conversations
    /\ UNCHANGED <<messages_collection, clock, nextConvId, nextMsgId, cs, req, settings, engineVars>>

\* an update without the "$inc" of message_count
PushedNoCount(doc, message) ==
    [doc EXCEPT !.messages = Append(@, message), !.updated_at = clock]

\* the document after {"$push": messages, "$inc": message_count, "$set": updated_at}
Pushed(doc, message) ==
    [doc EXCEPT !.messages = Append(@, message),
                !.message_count = @ + 1,
                !.updated_at = clock]

\* ChatService.add_message: one update_one, true iff a document was modified
ChatAddMessage(user, conv, role, content) ==
    /\ clock < MaxClock
    /\ IF Matches(conv, user)
       THEN /\ conversations' = [conversations EXCEPT
                  ![conv] = Pushed(@, NewMessage(role, content))]
            /\ nextMsgId' = nextMsgId + 1
            /\ clock' = clock + 1
            /\ result' = Response("add_message", user, conv, "ok", {conv}, {nextMsgId})
       ELSE /\ result' = Response("add_message", user, conv, "not_found", {}, {})
            /\ UNCHANGED <<conversations, nextMsgId, clock>>
    /\ UNCHANGED <<messages_collection, nextConvId, cs, req, settings, engineVars>>

\* ChatService.update_message: filter names the message, positional $set
ChatUpdateMessage(user, conv, mid, content) ==
    /\ clock < MaxClock
    /\ IF Matches(conv, user) /\ mid \in EmbeddedIds(conv)
       THEN /\ conversations' = [conversations EXCEPT ![conv] =
                  [@ EXCEPT !.messages = [i \in 1..Len(@) |->
                                IF @[i].id = mid
                                THEN [@[i] EXCEPT !.content = content] ELSE @[i]],
                            !.updated_at = clock]]
            /\ clock' = clock + 1
            /\ result' = Response("update_message", user, conv, "ok", {conv}, {mid})
       ELSE /\ result' = Response("update_message", user, conv, "not_found", {}, {})
            /\ UNCHANGED <<conversations, clock>>
    /\ UNCHANGED <<messages_collection, nextConvId, nextMsgId, cs, req, settings, engineVars>>

\* ChatService.delete_message: $pull by id, $inc message_count by -1
ChatDeleteMessage(user, conv, mid) ==
    /\ clock < MaxClock
    /\ IF Matches(conv, user)
       THEN /\ conversations' = [conversations EXCEPT ![conv] =
                  [@ EXCEPT !.messages =
                                LET Keep(m) == m.id # mid IN SelectSeq(@, Keep),
                            !.message_count = @ - 1,
                            !.updated_at = clock]]
            /\ clock' = clock + 1
            /\ result' = Response("delete_message", user, conv, "ok", {conv}, {mid})
       ELSE /\ result' = Response("delete_message", user, conv, "not_found", {}, {})
            /\ UNCHANGED <<conversations, clock>>
    /\ UNCHANGED <<messages_collection, nextConvId, nextMsgId, cs, req, settings, engineVars>>

\* POST /conversations/{id}/log-user-message and log-assistant-message:
\* add_message is awaited, its result dropped, {"status": "success"} returned
LogMessage(op, user, conv, role, content) ==
    /\ clock < MaxClock
    /\ conversations' = IF Matches(conv, user)
                        THEN [conversations EXCEPT
                                ![conv] = Pushed(@, NewMessage(role, content))]
                        ELSE conversations
    /\ nextMsgId' = nextMsgId + 1
    /\ clock' = clock + 1
    /\ result' = Response(op, user, conv, "success", {}, {})
    /\ UNCHANGED <<messages_collection, nextConvId, cs, req, settings, engineVars>>

LogUserMessage(user, conv, content) ==
    LogMessage("log_user_message", user, conv, "user", content)

LogAssistantMessage(user, conv, content) ==
    LogMessage("log_assistant_message", user, conv, "assistant", content)

\* ----------------------------------------------------- ConversationService
Idle == [pc |-> "idle", user |-> "", conv |-> NoConv, role |-> ""]

\* ConversationService.create_conversation
CSCreate(user) ==
    /\ nextConvId <= MaxConvs
    /\ clock < MaxClock
    /\ conversations' = [c \in ConvIds \cup {nextConvId} |->
          IF c = nextConvId THEN NewConversation(user, Placeholder)
          ELSE conversations[c]]
    /\ nextConvId' = nextConvId + 1
    /\ clock' = clock + 1
    /\ result' = Response("cs_create", user, nextConvId, "ok", {nextConvId}, {})
    /\ UNCHANGED <<messages_collection, nextMsgId, cs, req, settings, engineVars>>

\* ConversationService.get_conversation
CSGet(user, conv) ==
    /\ result' = IF Matches(conv, user)
                 THEN Response("cs_get", user, conv, "ok", {conv}, {})
                 ELSE Response("cs_get", user, conv, "not_found", {}, {})
    /\ UNCHANGED <<storeVars, cs, req, settings, engineVars>>

\* ConversationService.update_conversation (title patch)
CSUpdate(user, conv, title) ==
    ChatSet("cs_update", user, conv, [Doc(conv) EXCEPT !.title = title])

\* ConversationService.delete_conversation, step 1: delete_one
CSDeleteConversation(t, user, conv) ==
    /\ cs[t].pc = "idle"
    /\ IF Matches(conv, user)
       THEN /\ conversations' = [c \in ConvIds \ {conv} |-> conversations[c]]
            /\ cs' = [cs EXCEPT ![t] = [pc |-> "delete_many", user |-> user,
                                        conv |-> conv, role |-> ""]]
            /\ UNCHANGED result
       ELSE /\ result' = Response("cs_delete", user, conv, "not_found", {}, {})
            /\ UNCHANGED <<conversations, cs>>
    /\ UNCHANGED <<messages_collection, clock, nextConvId, nextMsgId, req, settings, engineVars>>

\* ConversationService.delete_conversation, step 2: delete_many, return True
CSDeleteMessages(t) ==
    /\ cs[t].pc = "delete_many"
    /\ messages_collection' =
          LET Keep(m) == m.conversation_id # cs[t].conv
          IN  SelectSeq(messages_collection, Keep)
    /\ result' = Response("cs_delete", cs[t].user, cs[t].conv, "ok", {cs[t].conv}, {})
    /\ cs' = [cs EXCEPT ![t] = Idle]
    /\ UNCHANGED <<conversations, clock, nextConvId, nextMsgId, req, settings, engineVars>>

\* ConversationService.add_message, step 1: ownership check
CSAddMessage(t, user, conv, role) ==
    /\ cs[t].pc = "idle"
    /\ clock < MaxClock
    /\ IF Matches(conv, user)
       THEN /\ cs' = [cs EXCEPT ![t] = [pc |-> "insert_one", user |-> user,
                                        conv |-> conv, role |-> role]]
            /\ UNCHANGED result
       ELSE /\ result' = Response("cs_add_message", user, conv, "not_found", {}, {})
            /\ UNCHANGED cs
    /\ UNCHANGED <<storeVars, req, settings, engineVars>>

\* ConversationService.add_message, step 2: insert the message document
CSInsertMessage(t) ==
    /\ cs[t].pc = "insert_one"
    /\ messages_collection' = Append(messages_collection,
          NewMessageDocument(cs[t].conv, cs[t].role, Hello))
    /\ nextMsgId' = nextMsgId + 1
    /\ clock' = clock + 1
    /\ cs' = [cs EXCEPT ![t].pc = "update_one"]
    /\ UNCHANGED <<conversations, nextConvId, result, req, settings, engineVars>>

\* ConversationService.add_message, step 3: update the conversation's count
CSCountMessage(t) ==
    /\ cs[t].pc = "update_one"
    /\ IF Matches(cs[t].conv, cs[t].user)
       THEN conversations' = [conversations EXCEPT ![cs[t].conv] =
                 [@ EXCEPT !.message_count = @ + 1, !.updated_at = clock]]
       ELSE UNCHANGED conversations
    /\ clock' = clock + 1
    /\ result' = Response("cs_add_message", cs[t].user, cs[t].conv, "ok",
                          {cs[t].conv}, {nextMsgId - 1})
    /\ cs' = [cs EXCEPT ![t] = Idle]
    /\ UNCHANGED <<messages_collection, nextConvId, nextMsgId, req, settings, engineVars>>

\* a store call of add_message / delete_conversation raises: the except
\* clause logs and re-raises, what was written before stays written
CSStoreFailure(t) ==
    /\ cs[t].pc \in {"insert_one", "update_one", "delete_many"}
    /\ result' = Response(IF cs[t].pc = "delete_many" THEN "cs_delete"
                          ELSE "cs_add_message",
                          cs[t].user, cs[t].conv, "error", {}, {})
    /\ cs' = [cs EXCEPT ![t] = Idle]
    /\ UNCHANGED <<storeVars, req, settings, engineVars>>

\* ConversationService.get_messages, step 1: ownership check
CSGetMessages(t, user, conv) ==
    /\ cs[t].pc = "idle"
    /\ IF Matches(conv, user)
       THEN /\ cs' = [cs EXCEPT ![t] = [pc |-> "find", user |-> user,
                                        conv |-> conv, role |-> ""]]
            /\ UNCHANGED result
       ELSE /\ result' = Response("cs_get_messages", user, conv, "not_found", {}, {})
            /\ UNCHANGED cs
    /\ UNCHANGED <<storeVars, req, settings, engineVars>>

\* ConversationService.get_messages, step 2: find by conversation_id
CSFindMessages(t) ==
    /\ cs[t].pc = "find"
    /\ result' = Response("cs_get_messages", cs[t].user, cs[t].conv, "ok",
                          {cs[t].conv}, CollectionIds(cs[t].conv))
    /\ cs' = [cs EXCEPT ![t] = Idle]
    /\ UNCHANGED <<storeVars, req, settings, engineVars>>

\* -------------------------------------------------------------- LLMService
ErrorPrefix == "Error: "
Models == {"", "gpt-3.5-turbo", "claude-3-5-sonnet"}
DefaultModel == "gpt-3.5-turbo"

\* text.startswith("Error: ")
IsErrorFragment(f) == f # <<>> /\ f[1] = ErrorPrefix

\* the characters of the names the engine compares (model names, provider
\* names, base urls and the two patterns)
Chars(name) ==
    CASE name = "" -> <<>>
      [] name = "gpt-3.5-turbo" -> <<"g", "p", "t", "-", "3", ".", "5", "-", "t", "u", "r", "b", "o">>
      [] name = "claude-3-5-sonnet" -> <<"c", "l", "a", "u", "d", "e", "-", "3", "-", "5", "-", "s", "o", "n", "n", "e", "t">>
      [] name = "gpt-4" -> <<"g", "p", "t", "-", "4">>
      [] name = "Claude-3" -> <<"C", "l", "a", "u", "d", "e", "-", "3">>
      [] name = "anthropic.claude-v2" -> <<"a", "n", "t", "h", "r", "o", "p", "i", "c", ".", "c", "l", "a", "u", "d", "e", "-", "v", "2">>
      [] name = "deepseek-chat" -> <<"d", "e", "e", "p", "s", "e", "e", "k", "-", "c", "h", "a", "t">>
      [] name = "claude-" -> <<"c", "l", "a", "u", "d", "e", "-">>
      [] name = "anthropic" -> <<"a", "n", "t", "h", "r", "o", "p", "i", "c">>
      [] name = "Anthropic (env)" -> <<"A", "n", "t", "h", "r", "o", "p", "i", "c", " ", "(", "e", "n", "v", ")">>
      [] name = "OpenAI (env)" -> <<"O", "p", "e", "n", "A", "I", " ", "(", "e", "n", "v", ")">>
      [] name = "https://api.anthropic.com/v1" -> <<"h", "t", "t", "p", "s", ":", "/", "/", "a", "p", "i", ".", "a", "n", "t", "h", "r", "o", "p", "i", "c", ".", "c", "o", "m", "/", "v", "1">>
      [] name = "https://api.openai.com/v1" -> <<"h", "t", "t", "p", "s", ":", "/", "/", "a", "p", "i", ".", "o", "p", "e", "n", "a", "i", ".", "c", "o", "m", "/", "v", "1">>
      [] name = "OpenAI" -> <<"O", "p", "e", "n", "A", "I">>
      [] name = "DeepSeek" -> <<"D", "e", "e", "p", "S", "e", "e", "k">>
      [] name = "https://api.deepseek.com" -> <<"h", "t", "t", "p", "s", ":", "/", "/", "a", "p", "i", ".", "d", "e", "e", "p", "s", "e", "e", "k", ".", "c", "o", "m">>

UpperCase == <<"A", "B", "C", "D", "E", "F", "G", "H", "I", "J", "K", "L", "M",
               "N", "O", "P", "Q", "R", "S", "T", "U", "V", "W", "X", "Y", "Z">>
LowerCase == <<"a", "b", "c", "d", "e", "f", "g", "h", "i", "j", "k", "l", "m",
               "n", "o", "p", "q", "r", "s", "t", "u", "v", "w", "x", "y", "z">>

\* str.lower()
Lower(s) ==
    [i \in 1..Len(s) |->
        IF \E k \in 1..26 : UpperCase[k] = s[i]
        THEN LowerCase[CHOOSE k \in 1..26 : UpperCase[k] = s[i]]
        ELSE s[i]]

\* s.startswith(p)
StartsWith(s, p) == Len(s) >= Len(p) /\ SubSeq(s, 1, Len(p)) = p

\* p in s
Contains(s, p) ==
    \E i \in 0..(Len(s) - Len(p)) : SubSeq(s, i + 1, i + Len(p)) = p

\* config_service.find_provider_for_model / get_default_provider_config:
\* ConfigService defines neither, the attribute lookup raises
ProviderLookup == "raises"

\* LLMService._resolve_provider: stored provider, stored default, env fallback
ResolveProvider(model) ==
    IF ProviderLookup = "raises"
    THEN IF StartsWith(Chars(model), Chars("claude-"))
         THEN [api_key |-> settings.anthropic_api_key,
               base_url |-> "https://api.anthropic.com/v1",
               provider_name |-> "Anthropic (env)", model |-> model]
         ELSE [api_key |-> settings.openai_api_key,
               base_url |-> "https://api.openai.com/v1",
               provider_name |-> "OpenAI (env)", model |-> model]
    ELSE [api_key |-> "", base_url |-> "", provider_name |-> "", model |-> model]

\* a routing that looks at the names only when a key was resolved
IsAnthropicWhenKeyed(cfg, model) ==
    /\ cfg.api_key # ""
    /\ \/ Contains(Lower(Chars(cfg.provider_name)), Chars("anthropic"))
       \/ Contains(Lower(Chars(cfg.base_url)), Chars("anthropic"))
       \/ StartsWith(Chars(model), Chars("claude-"))

\* stream_chat routing: "anthropic" in the lowered provider name or base
\* url, or a model name that starts with "claude-"
IsAnthropic(cfg, model) ==
    \/ Contains(Lower(Chars(cfg.provider_name)), Chars("anthropic"))
    \/ Contains(Lower(Chars(cfg.base_url)), Chars("anthropic"))
    \/ StartsWith(Chars(model), Chars("claude-"))

\* api_key or self.<backend>_api_key
EffectiveKey(cfg, anthropic) ==
    IF cfg.api_key # "" THEN cfg.api_key
    ELSE IF anthropic THEN settings.anthropic_api_key ELSE settings.openai_api_key

\* a template around the first message of the context
MockResponseFirstMessage(provider, msgs) ==
    <<provider>> \o msgs[1].content \o <<"(mock)">>

\* _mock_stream: the canned template around the last message, char by char
MockResponse(provider, msgs) ==
    <<provider>> \o msgs[Len(msgs)].content \o <<"(mock)">>

\* the generator object stream_chat returns, before its first step
NewStream(msgs, model, healthy) ==
    LET cfg == ResolveProvider(model)
        anthropic == IsAnthropic(cfg, model)
        key == EffectiveKey(cfg, anthropic)
    IN  [backend |-> IF anthropic THEN "anthropic" ELSE "openai",
         phase   |-> IF key = "" \/ key = "mock" THEN "mock" ELSE "request",
         mock    |-> MockResponse(IF anthropic THEN "Anthropic Claude" ELSE "Mock LLM", msgs),
         pos     |-> 0,
         healthy |-> healthy,       \* the upstream answers and ends in order
         upstream |-> "",           \* how the upstream call went wrong, if it did
         raised  |-> FALSE,         \* an exception left the generator
         at_yield |-> FALSE,        \* suspended at the yield of a fragment
         malformed |-> FALSE]       \* the upstream sent a malformed payload

NoStream == [backend |-> "", phase |-> "none", mock |-> <<>>, pos |-> 0,
             healthy |-> TRUE, upstream |-> "", raised |-> FALSE,
             at_yield |-> FALSE, malformed |-> FALSE]

\* what the upstream delivers next on an open provider stream
UpstreamEvents(g) ==
    (IF g.pos < MaxLines THEN {"delta"} ELSE {}) \cup {"end"}
    \cup (IF g.pos < MaxLines /\ ~g.healthy THEN {"malformed"} ELSE {})
    \cup (IF ~g.healthy THEN {"failure"} ELSE {})

\* the except clause of _stream_openai / _stream_anthropic re-raising
\* instead of yielding the error fragment
FailureStepRaises(g, detail) ==
    [fragment |-> <<>>, yields |-> FALSE, gen |-> [g EXCEPT !.phase = "closed", !.raised = TRUE]]

\* except Exception as e: yield f"Error: ... {e}" -- the provider stream
\* is left (closed) when the exception passes its async with
FailureStep(g, detail) ==
    [fragment |-> <<ErrorPrefix, detail>>, yields |-> TRUE,
     gen |-> [g EXCEPT !.phase = "failed"]]

\* the generator once the upstream answered with event ev
Met(g, ev) ==
    [g EXCEPT !.upstream =
        IF ev = "status" THEN "status_500"
        ELSE IF ev = "failure" \/ (ev = "malformed" /\ g.backend = "anthropic")
        THEN "failure" ELSE @,
              !.malformed = @ \/ ev = "malformed"]

\* one step of the generator (_stream_openai, _stream_anthropic, _mock_stream)
\* under upstream event ev: up to its next yield, or to its end
StreamStep(g, ev) ==
    CASE g.phase = "mock" ->
            IF g.pos < Len(g.mock)
            THEN [fragment |-> <<g.mock[g.pos + 1]>>, yields |-> TRUE,
                  gen |-> [g EXCEPT !.pos = @ + 1]]
            ELSE [fragment |-> <<>>, yields |-> FALSE, gen |-> [g EXCEPT !.phase = "closed"]]
      [] g.phase = "request" ->
            \* client.stream(...) / AsyncAnthropic(...) and messages.stream(...)
            IF ev = "failure" THEN FailureStep(Met(g, ev), "request failed")
            ELSE IF ev = "status" /\ g.backend = "openai"
            THEN [fragment |-> <<ErrorPrefix, "500">>, yields |-> TRUE,
                  gen |-> [Met(g, ev) EXCEPT !.phase = "failed"]]
            ELSE IF ev = "status" THEN FailureStep(Met(g, ev), "500")
            ELSE [fragment |-> <<>>, yields |-> FALSE, gen |-> [g EXCEPT !.phase = "open"]]
      [] g.phase = "open" ->
            IF ev = "delta"
            THEN [fragment |-> <<"a">>, yields |-> TRUE, gen |-> [g EXCEPT !.pos = @ + 1]]
            ELSE IF ev = "malformed" /\ g.backend = "openai"
            THEN [fragment |-> <<>>, yields |-> FALSE,
                  gen |-> [g EXCEPT !.pos = @ + 1, !.malformed = TRUE]]
            ELSE IF ev = "end"
            THEN [fragment |-> <<>>, yields |-> FALSE, gen |-> [g EXCEPT !.phase = "closed"]]
            ELSE FailureStep(Met(g, ev), "request failed")
      [] OTHER ->   \* "failed": the generator resumes after its last yield and ends
            [fragment |-> <<>>, yields |-> FALSE, gen |-> [g EXCEPT !.phase = "closed"]]

\* the events the upstream can produce in the generator's current phase
EventsAt(g) ==
    CASE g.phase = "request" -> IF g.healthy THEN {"ok"} ELSE {"ok", "status", "failure"}
      [] g.phase = "open"    -> UpstreamEvents(g)
      [] OTHER               -> {"none"}

\* drain: every text a consumer can accumulate from generator g
RECURSIVE Drain(_, _)
Drain(g, acc) ==
    IF g.phase = "closed" THEN {acc}
    ELSE UNION { LET step == StreamStep(g, ev)
                 IN  Drain(step.gen, IF step.yields THEN acc \o step.fragment ELSE acc)
                 : ev \in EventsAt(g) }

\* ------------------------------------------------------- chat_completions
HistoryLimit == 10
TitleLimit == 30
FallbackLimit == 20
UserPromptLimit == 200
ReplyPromptLimit == 300
Experts == {"", "expert-bio"}
DefaultSystemPrompt == <<"You are a helpful biomedical expert assistant.">>

\* config_service.get_agent: the stored agent configuration, or None
GetAgent(expert_id) ==
    IF expert_id = "expert-bio"
    THEN [found |-> TRUE, systemPrompt |-> <<"You are a Ph.D. level expert">>, model |-> "gpt-4"]
    ELSE [found |-> FALSE, systemPrompt |-> <<>>, model |-> ""]


\* s[:n]
Prefix(s, n) == SubSeq(s, 1, IF n < Len(s) THEN n ELSE Len(s))

\* the oldest n messages instead of the latest
RecentOldest(s, n) == IF Len(s) > n THEN SubSeq(s, 1, n) ELSE s

\* conversation.messages[-n:] if len(conversation.messages) > n else all
Recent(s, n) == IF Len(s) > n THEN SubSeq(s, Len(s) - n + 1, Len(s)) ELSE s

\* str.strip(chars)
RECURSIVE Strip(_, _)
Strip(s, chars) ==
    IF s = <<>> THEN s
    ELSE IF s[1] \in chars THEN Strip(Tail(s), chars)
    ELSE IF s[Len(s)] \in chars THEN Strip(SubSeq(s, 1, Len(s) - 1), chars)
    ELSE s

Whitespace == {" ", "\n"}

\* title.strip().strip('"').strip("'").strip(<book title marks>).strip();
\* the two book title marks are written "<<" and ">>"
CleanTitle(t) ==
    Strip(Strip(Strip(Strip(Strip(t, Whitespace), {"\""}), {"'"}), {"<<", ">>"}), Whitespace)

\* the model event_generator settles on: request model, default, agent model
ContextModel(model, expert_id) ==
    LET m0 == IF model # "" THEN model ELSE DefaultModel   \* the default lookup raises
        agent == GetAgent(expert_id)
    IN  IF expert_id # "" /\ agent.found /\ agent.model # "" THEN agent.model ELSE m0

ContextPrompt(expert_id) ==
    IF expert_id # "" /\ GetAgent(expert_id).found
    THEN GetAgent(expert_id).systemPrompt ELSE DefaultSystemPrompt

\* [system prompt] + recent history + current user message
ContextMessages(expert_id, history, message) ==
    <<[role |-> "system", content |-> ContextPrompt(expert_id)]>>
    \o [i \in 1..Len(Recent(history, HistoryLimit)) |->
          [role |-> Recent(history, HistoryLimit)[i].role,
           content |-> Recent(history, HistoryLimit)[i].content]]
    \o <<[role |-> "user", content |-> message]>>

\* the prompt _generate_title sends
TitlePrompt(user_message, ai_response) ==
    << [role |-> "system", content |-> <<"You are a title generator.">>],
       [role |-> "user",
        content |-> <<"Question: ">> \o Prefix(user_message, UserPromptLimit)
                    \o <<"Answer: ">> \o Prefix(ai_response, ReplyPromptLimit)
                    \o <<"Title: ">>] >>

\* "..."
Ellipsis == <<".", ".", ".">>

\* _generate_title: the cleaned provider text cut to 30, else the fallback
TitleFrom(text, user_message) ==
    IF CleanTitle(text) # <<>> THEN Prefix(CleanTitle(text), TitleLimit)
    ELSE IF Len(user_message) > FallbackLimit
         THEN Prefix(user_message, FallbackLimit) \o Ellipsis
         ELSE user_message

GeneratedTitles(user_message, ai_response, model, healthy) ==
    { TitleFrom(text, user_message) :
        text \in Drain(NewStream(TitlePrompt(user_message, ai_response), model, healthy), <<>>) }

Event(type, content, conv) == [type |-> type, content |-> content, conversationId |-> conv]
Done == Event("done", <<>>, NoConv)

\* no Message object built yet
NoMessage == [id |-> 0, role |-> "", content |-> <<>>, created_at |-> 0]

NotStarted ==
    [pc |-> "new", user |-> "", message |-> <<>>, conversation_id |-> NoConv,
     expert_id |-> "", model |-> "", stream |-> TRUE, healthy |-> TRUE,
     is_new_conversation |-> FALSE, history |-> <<>>,
     messages |-> <<>>, gen |-> NoStream, reply_calls |-> 0,
     user_msg_id |-> 0, ai_msg_id |-> 0,
     full_response |-> <<>>, new_title |-> <<>>, events |-> <<>>,
     writes |-> <<>>, built |-> NoMessage]

\* lines 382-402, without conversation id: create the conversation
ResolveCreate(r, user, model, expert_id, stream, healthy) ==
    /\ req[r].pc = "new"
    /\ conversations' = [c \in ConvIds \cup {nextConvId} |->
          IF c = nextConvId THEN NewConversation(user, Placeholder)
          ELSE conversations[c]]
    /\ nextConvId' = nextConvId + 1
    /\ clock' = clock + 1
    /\ req' = [req EXCEPT ![r] = [@ EXCEPT
          !.pc = "record", !.user = user, !.message = Hello,
          !.conversation_id = nextConvId, !.expert_id = expert_id,
          !.model = model, !.stream = stream, !.healthy = healthy,
          !.is_new_conversation = TRUE, !.history = <<>>,
          !.writes = Append(@, "create_conversation")]]
    /\ UNCHANGED <<messages_collection, nextMsgId, result, cs, settings, engineVars>>

\* the side effects of the failing resolution: none
ResolveMissCreates(r, user, conv) ==
    /\ conversations' = [c \in ConvIds \cup {conv} |->
          IF c = conv /\ conv \notin ConvIds THEN NewConversation(user, Placeholder)
          ELSE conversations[c]]
    /\ UNCHANGED <<messages_collection, clock, nextConvId, nextMsgId>>

ResolveMiss(r, user, conv) ==
    UNCHANGED <<conversations, messages_collection, clock, nextConvId, nextMsgId>>

\* lines 382-402, with conversation id: load by (id, user) or raise 404
ResolveLoad(r, user, conv, model, expert_id, stream, healthy) ==
    /\ req[r].pc = "new"
    /\ IF Matches(conv, user)
       THEN /\ req' = [req EXCEPT ![r] = [@ EXCEPT
                  !.pc = "record", !.user = user, !.message = Hello,
                  !.conversation_id = conv, !.expert_id = expert_id,
                  !.model = model, !.stream = stream, !.healthy = healthy,
                  !.is_new_conversation = FALSE,
                  !.history = conversations[conv].messages]]
            /\ UNCHANGED storeVars
       ELSE /\ req' = [req EXCEPT ![r] = [@ EXCEPT
                  !.pc = "http_404", !.user = user, !.message = Hello,
                  !.conversation_id = conv, !.expert_id = expert_id,
                  !.model = model, !.stream = stream, !.healthy = healthy]]
            /\ ResolveMiss(r, user, conv)
    /\ UNCHANGED <<result, cs, settings, engineVars>>

\* add_message that drops a reply which is an error explanation
WithMessageSkipErrors(conv, user, role, content) ==
    IF Matches(conv, user) /\ ~(role = "assistant" /\ IsErrorFragment(content))
    THEN [conversations EXCEPT ![conv] = Pushed(@, NewMessage(role, content))]
    ELSE conversations

\* add_message that stores assistant messages only
WithMessageAssistantOnly(conv, user, role, content) ==
    IF Matches(conv, user) /\ role = "assistant"
    THEN [conversations EXCEPT ![conv] = Pushed(@, NewMessage(role, content))]
    ELSE conversations

\* the conversations collection after chat_service.add_message
WithMessage(conv, user, role, content) ==
    IF Matches(conv, user)
    THEN [conversations EXCEPT ![conv] = Pushed(@, NewMessage(role, content))]
    ELSE conversations

\* lines 404-410: record the user message (the result is not looked at);
\* the message is built and stored with no other request in between
RecordUserMessage(r) ==
    /\ req[r].pc = "record"
    /\ conversations' = WithMessage(req[r].conversation_id, req[r].user,
                                    "user", req[r].message)
    /\ nextMsgId' = nextMsgId + 1
    /\ clock' = clock + 1
    /\ req' = [req EXCEPT ![r] = [@ EXCEPT !.pc = "context", !.user_msg_id = nextMsgId,
                                             !.writes = Append(@, "add_message")]]
    /\ UNCHANGED <<messages_collection, nextConvId, result, cs, settings, engineVars>>

\* lines 405-410 step by step.  lines 405-409: the Message object is built
\* and takes its created_at from the clock (models/chat.py, default_factory)
BuildUserMessage(r) ==
    /\ req[r].pc = "record"
    /\ req' = [req EXCEPT ![r] = [@ EXCEPT !.pc = "record_store",
                                             !.built = NewMessage("user", req[r].message)]]
    /\ nextMsgId' = nextMsgId + 1
    /\ clock' = clock + 1
    /\ UNCHANGED <<conversations, messages_collection, nextConvId, result, cs,
                   settings, engineVars>>

\* line 410: the store applies the $push of the message built before
StoreUserMessage(r) ==
    /\ req[r].pc = "record_store"
    /\ conversations' =
          IF Matches(req[r].conversation_id, req[r].user)
          THEN [conversations EXCEPT ![req[r].conversation_id] = Pushed(@, req[r].built)]
          ELSE conversations
    /\ clock' = clock + 1
    /\ req' = [req EXCEPT ![r] = [@ EXCEPT !.pc = "context",
                                             !.user_msg_id = req[r].built.id,
                                             !.writes = Append(@, "add_message")]]
    /\ UNCHANGED <<messages_collection, nextConvId, nextMsgId, result, cs,
                   settings, engineVars>>

\* lines 413-454: settle model and prompt, build the context, call stream_chat
BuildContext(r) ==
    /\ req[r].pc = "context"
    /\ LET msgs == ContextMessages(req[r].expert_id, req[r].history, req[r].message)
           model == ContextModel(req[r].model, req[r].expert_id)
       IN  req' = [req EXCEPT ![r] = [@ EXCEPT
              !.pc = "stream", !.messages = msgs, !.model = model,
              !.gen = NewStream(msgs, model, req[r].healthy), !.reply_calls = @ + 1]]
    /\ UNCHANGED <<storeVars, result, cs, settings, engineVars>>

\* a loop that keeps the latest fragment only (full_response = chunk)
StreamReplyKeepsLatest(r) ==
    /\ req[r].pc = "stream"
    /\ \E ev \in EventsAt(req[r].gen) :
          LET step == StreamStep(req[r].gen, ev) IN
          req' = [req EXCEPT ![r] =
             IF step.gen.raised
             THEN [@ EXCEPT !.pc = "failed", !.gen = step.gen,
                            !.events = Append(@, Event("error", <<"exception">>, NoConv))]
             ELSE IF step.yields
             THEN [@ EXCEPT !.gen = [step.gen EXCEPT !.at_yield = TRUE],
                            !.full_response = step.fragment,
                            !.events = Append(@, Event("token", step.fragment,
                                                       req[r].conversation_id))]
             ELSE IF step.gen.phase = "closed"
             THEN [@ EXCEPT !.pc = "persist",
                            !.gen = [step.gen EXCEPT !.at_yield = FALSE]]
             ELSE [@ EXCEPT !.gen = [step.gen EXCEPT !.at_yield = FALSE]]]
    /\ UNCHANGED <<storeVars, result, cs, settings, engineVars>>

\* lines 454-456 and 480-483: one step of the reply stream; a fragment is
\* accumulated and forwarded, an exception ends in the error event
StreamReply(r) ==
    /\ req[r].pc = "stream"
    /\ \E ev \in EventsAt(req[r].gen) :
          LET step == StreamStep(req[r].gen, ev) IN
          req' = [req EXCEPT ![r] =
             IF step.gen.raised
             THEN [@ EXCEPT !.pc = "failed", !.gen = step.gen,
                            !.events = Append(@, Event("error", <<"exception">>, NoConv))]
             ELSE IF step.yields
             THEN [@ EXCEPT !.gen = [step.gen EXCEPT !.at_yield = TRUE],
                            !.full_response = @ \o step.fragment,
                            !.events = Append(@, Event("token", step.fragment,
                                                       req[r].conversation_id))]
             ELSE IF step.gen.phase = "closed"
             THEN [@ EXCEPT !.pc = "persist",
                            !.gen = [step.gen EXCEPT !.at_yield = FALSE]]
             ELSE [@ EXCEPT !.gen = [step.gen EXCEPT !.at_yield = FALSE]]]
    /\ UNCHANGED <<storeVars, result, cs, settings, engineVars>>

\* lines 458-467 and 479: store the assistant message; then the title
\* of a new conversation with a non-empty reply, else [DONE]
PersistAssistantMessage(r) ==
    /\ req[r].pc = "persist"
    /\ conversations' = WithMessage(req[r].conversation_id, req[r].user,
                                    "assistant", req[r].full_response)
    /\ nextMsgId' = nextMsgId + 1
    /\ clock' = clock + 1
    /\ req' = [req EXCEPT ![r] =
          IF req[r].is_new_conversation /\ req[r].full_response # <<>>
          THEN [@ EXCEPT !.pc = "title", !.ai_msg_id = nextMsgId,
                         !.writes = Append(@, "add_message")]
          ELSE [@ EXCEPT !.pc = "done", !.ai_msg_id = nextMsgId,
                         !.writes = Append(@, "add_message"),
                         !.events = Append(@, Done)]]
    /\ UNCHANGED <<messages_collection, nextConvId, result, cs, settings, engineVars>>

\* line 469: _generate_title drains a second stream_chat call
GenerateTitle(r) ==
    /\ req[r].pc = "title"
    /\ \E t \in GeneratedTitles(req[r].message, req[r].full_response,
                                  req[r].model, req[r].healthy) :
          req' = [req EXCEPT ![r] = [@ EXCEPT !.pc = "title_update", !.new_title = t]]
    /\ UNCHANGED <<storeVars, result, cs, settings, engineVars>>

\* lines 470-479: update the title, emit the title event and [DONE]
UpdateTitle(r) ==
    /\ req[r].pc = "title_update"
    /\ IF Matches(req[r].conversation_id, req[r].user)
       THEN conversations' = [conversations EXCEPT ![req[r].conversation_id] =
               Touch([@ EXCEPT !.title = req[r].new_title])]
       ELSE UNCHANGED conversations
    /\ clock' = clock + 1
    /\ req' = [req EXCEPT ![r] = [@ EXCEPT
          !.pc = "done",
          !.writes = Append(@, "update_conversation"),
          !.events = @ \o <<Event("title_generated", req[r].new_title,
                                  req[r].conversation_id), Done>>]]
    /\ UNCHANGED <<messages_collection, nextConvId, nextMsgId, result, cs, settings, engineVars>>

\* what becomes of an abandoned stream_chat generator (llm.py 165-189,
\* 258-263).  Awaiting the upstream, CancelledError leaves through the
\* "async with" and the provider stream is closed.  Suspended at the yield of
\* line 185, the generator is closed with GeneratorExit, which the bare
\* "except: pass" of line 186 catches: the loop goes on to the next upstream
\* line, and the provider stream is closed only if the upstream ends or fails
\* there; at a further fragment the generator yields again, the close is
\* given up and the "async with" never exits.  after a fragment the consumer
\* is either still sending it (the generator at its yield) or has asked for
\* the next one (the generator awaiting the upstream).
Abandoned(g) ==
    IF g.phase = "open" /\ g.backend = "openai" /\ g.at_yield
    THEN {[g EXCEPT !.phase = "closed", !.at_yield = FALSE]}
         \cup {[g EXCEPT !.phase = "leaked"] : ev \in UpstreamEvents(g) \cap {"delta"}}
    ELSE IF g.phase = "none" THEN {g}
    ELSE {[g EXCEPT !.phase = "closed", !.at_yield = FALSE]}

\* the client goes away while the response streams: the generator is
\* cancelled at its current await or yield (CancelledError / GeneratorExit
\* are not Exception, the except clause of line 480 does not run)
ClientDisconnect(r) ==
    /\ req[r].stream
    /\ req[r].pc \in {"stream", "persist", "title", "title_update"}
    /\ \E g \in Abandoned(req[r].gen) :
          req' = [req EXCEPT ![r].pc = "cancelled", ![r].gen = g]
    /\ UNCHANGED <<storeVars, result, cs, settings, engineVars>>

\* --------------------------------------- failures of store and config calls
\* chat_service.add_message of line 410 raises: the handler ends in HTTP 500
RecordFails(r) ==
    /\ req[r].pc = "record"
    /\ req' = [req EXCEPT ![r].pc = "http_500"]
    /\ UNCHANGED <<storeVars, result, cs, settings, engineVars>>

\* config_service.get_agent of line 432 raises outside the try of line 453:
\* the generator raises before its first event
AgentLookupFails(r) ==
    /\ req[r].pc = "context"
    /\ req[r].expert_id # ""
    /\ req' = [req EXCEPT ![r].pc = "raised"]
    /\ UNCHANGED <<storeVars, result, cs, settings, engineVars>>

\* chat_service.add_message of line 464 raises: except clause of line 480
PersistFails(r) ==
    /\ req[r].pc = "persist"
    /\ req' = [req EXCEPT ![r] = [@ EXCEPT
          !.pc = "failed",
          !.events = Append(@, Event("error", <<"store failure">>, NoConv))]]
    /\ UNCHANGED <<storeVars, result, cs, settings, engineVars>>

\* the stream_chat call of _generate_title raises: logged by the except
\* clause of line 368, the title falls back to the user message
TitleCallFails(r) ==
    /\ req[r].pc = "title"
    /\ req' = [req EXCEPT ![r] = [@ EXCEPT
          !.pc = "title_update", !.new_title = TitleFrom(<<>>, req[r].message)]]
    /\ UNCHANGED <<storeVars, result, cs, settings, engineVars>>

\* the failing title update reaching the except clause of line 480
UpdateTitleFailsSurfaced(r) ==
    /\ req[r].pc = "title_update"
    /\ req' = [req EXCEPT ![r] = [@ EXCEPT
          !.pc = "failed",
          !.events = Append(@, Event("error", <<"store failure">>, NoConv))]]
    /\ UNCHANGED <<storeVars, result, cs, settings, engineVars>>

\* chat_service.update_conversation of line 470 raises: logged, then [DONE]
UpdateTitleFails(r) ==
    /\ req[r].pc = "title_update"
    /\ req' = [req EXCEPT ![r] = [@ EXCEPT !.pc = "done", !.events = Append(@, Done)]]
    /\ UNCHANGED <<storeVars, result, cs, settings, engineVars>>

\* ----------------------------------------------------------- ConfigService
\* DEFAULT_PROVIDERS, inserted by init_defaults (apiKey None)
DefaultProviders ==
    [p \in {"openai-default"} |->
        [name |-> "OpenAI", baseUrl |-> "https://api.openai.com/v1", apiKey |-> "",
         models |-> {"gpt-4", "gpt-3.5-turbo"}]]

\* no call of the engine yet
NoCall == [op |-> "", status |-> "", model |-> "", cfg |-> <<>>, backend |-> "",
           mock |-> FALSE, msgs |-> <<>>, text |-> <<>>, before |-> <<>>]

\* provider documents an administrator stores
ProviderIds == {"p1"}
ProviderDocs ==
    { [name |-> "DeepSeek", baseUrl |-> "https://api.deepseek.com", apiKey |-> "sk-db",
       models |-> {"deepseek-chat"}] }

\* ConfigService.add_provider: replace_one or insert_one by id
AddProvider(id, doc) ==
    /\ llm_providers' = [p \in DOMAIN llm_providers \cup {id} |->
                            IF p = id THEN doc ELSE llm_providers[p]]
    /\ UNCHANGED <<storeVars, result, cs, req, settings, call, service>>

\* ConfigService.delete_provider
DeleteProvider(id) ==
    /\ llm_providers' = [p \in DOMAIN llm_providers \ {id} |-> llm_providers[p]]
    /\ UNCHANGED <<storeVars, result, cs, req, settings, call, service>>

\* ------------------------------------------------------ calls of the engine
EngineModels == {"gpt-3.5-turbo", "claude-3-5-sonnet", "Claude-3",
                 "anthropic.claude-v2", "deepseek-chat"}
StreamModels == {"gpt-3.5-turbo", "claude-3-5-sonnet", "Claude-3"}

\* contexts handed to stream_chat: with and without system prompt and history
Contexts ==
    { <<[role |-> "user", content |-> m]>> : m \in {Hello, Edited} }
    \cup { <<[role |-> "system", content |-> DefaultSystemPrompt],
             [role |-> "user", content |-> Hello]>>,
           <<[role |-> "system", content |-> DefaultSystemPrompt],
             [role |-> "user", content |-> Edited],
             [role |-> "assistant", content |-> <<"a">>],
             [role |-> "user", content |-> Hello]>> }

\* LLMService._resolve_provider(model), called on its own
Resolve(model) ==
    /\ call' = [NoCall EXCEPT !.op = "resolve", !.status = "ok", !.model = model,
                              !.cfg = ResolveProvider(model)]
    /\ UNCHANGED <<storeVars, result, cs, req, settings, llm_providers, service>>

\* what is kept of a mock answer for the comparison with the next one
Kept(c) == IF c.op = "stream_chat" /\ c.mock
           THEN [model |-> c.model, api_key |-> c.cfg.api_key, backend |-> c.backend,
                 mock |-> c.mock, msgs |-> c.msgs, text |-> c.text]
           ELSE <<>>

\* LLMService.stream_chat(messages, model), drained by its consumer
StreamChat(model, msgs) ==
    /\ LET g == NewStream(msgs, model, TRUE) IN
       \E text \in Drain(g, <<>>) :
          call' = [NoCall EXCEPT !.op = "stream_chat", !.status = "ok", !.model = model,
                                !.cfg = ResolveProvider(model),
                                !.backend = g.backend, !.mock = (g.phase = "mock"),
                                !.msgs = msgs, !.text = text, !.before = Kept(call)]
    /\ UNCHANGED <<storeVars, result, cs, req, settings, llm_providers, service>>

\* ------------------------------------------- LLMService and its clients
MaxClients == 4    \* provider clients created during one run

\* an invocation of stream_chat that has not begun
NoInvocation ==
    [pc |-> "idle", backend |-> "", client |-> 0, own |-> FALSE,
     shared |-> FALSE, in_window |-> FALSE]

\* LLMService.__init__: no client yet, start() not called; sdk tells whether
\* "from anthropic import AsyncAnthropic" succeeds in this installation
NoService ==
    [phase |-> "new", sdk |-> TRUE, client |-> 0, anthropic_client |-> 0,
     clients |-> {}, made |-> 0, inv |-> [r \in Requests |-> NoInvocation]]

\* a provider client object (httpx.AsyncClient or AsyncAnthropic) is a record
\* [id, kind, owner]: kept in a field of the service, or local to the
\* invocation that made it

\* LLMService.start, called once by the lifespan
Start ==
    /\ service.phase = "new"
    /\ service.made + 2 <= MaxClients
    /\ LET makeHttp == service.client = 0
           makeSdk  == settings.anthropic_api_key \notin {"", "mock"} /\ service.sdk
           http == service.made + 1
           sdk  == service.made + (IF makeHttp THEN 2 ELSE 1)
       IN  service' = [service EXCEPT
              !.phase = "started",
              !.client = IF makeHttp THEN http ELSE @,
              !.anthropic_client = IF makeSdk THEN sdk ELSE @,
              !.clients = @ \cup (IF makeHttp THEN {[id |-> http, kind |-> "http", owner |-> "service"]} ELSE {})
                            \cup (IF makeSdk THEN {[id |-> sdk, kind |-> "anthropic", owner |-> "service"]} ELSE {}),
              !.made = @ + (IF makeHttp THEN 1 ELSE 0) + (IF makeSdk THEN 1 ELSE 0)]
    /\ UNCHANGED <<storeVars, result, cs, req, settings, llm_providers, call>>

\* LLMService.stop: the HTTP client is closed, both fields are cleared
Stop ==
    /\ service.phase = "started"
    /\ service' = [service EXCEPT
          !.phase = "stopped", !.client = 0, !.anthropic_client = 0,
          !.clients = {c \in @ : c.owner # "service"}]
    /\ UNCHANGED <<storeVars, result, cs, req, settings, llm_providers, call>>

\* a client for every invocation
CreatesClientAlways(anthropic, key) == TRUE

\* line 156 "if not self.client", line 215 "if effective_key !=
\* self.anthropic_api_key or not anthropic_client"
CreatesClient(anthropic, key) ==
    IF anthropic
    THEN key # settings.anthropic_api_key \/ service.anthropic_client = 0
    ELSE service.client = 0

\* stream_chat up to the opening of the provider stream: which client the
\* invocation streams through
Invoke(r, model) ==
    /\ service.inv[r].pc = "idle"
    /\ service.made < MaxClients
    /\ LET cfg == ResolveProvider(model)
           anthropic == IsAnthropic(cfg, model)
           key == EffectiveKey(cfg, anthropic)
           id == service.made + 1
           begun == [NoInvocation EXCEPT
                       !.pc = "streaming",
                       !.backend = IF anthropic THEN "anthropic" ELSE "openai",
                       !.in_window = (service.phase = "started")]
       IN  service' =
             IF key \in {"", "mock"}                      \* mock mode: no client
             THEN [service EXCEPT !.inv[r] = begun]
             ELSE IF ~CreatesClient(anthropic, key)  \* the client the service holds
             THEN [service EXCEPT !.inv[r] =
                     [begun EXCEPT !.shared = TRUE,
                                   !.client = IF anthropic THEN service.anthropic_client
                                              ELSE service.client]]
             ELSE IF ~anthropic                      \* line 157: kept in self.client
             THEN [service EXCEPT
                     !.client = id, !.made = id,
                     !.clients = @ \cup {[id |-> id, kind |-> "http", owner |-> "service"]},
                     !.inv[r] = [begun EXCEPT !.client = id, !.own = TRUE, !.shared = TRUE]]
             ELSE IF service.sdk                     \* line 221: local to the call
             THEN [service EXCEPT
                     !.made = id,
                     !.clients = @ \cup {[id |-> id, kind |-> "anthropic", owner |-> r]},
                     !.inv[r] = [begun EXCEPT !.client = id, !.own = TRUE]]
             ELSE [service EXCEPT !.inv[r] = begun]   \* lines 222-224: error fragment
    /\ UNCHANGED <<storeVars, result, cs, req, settings, llm_providers, call>>

\* the invocation is over; a client local to it goes with it
Finish(r) ==
    /\ service.inv[r].pc = "streaming"
    /\ service' = [service EXCEPT !.inv[r] = NoInvocation,
                                   !.clients = {c \in @ : c.owner # r}]
    /\ UNCHANGED <<storeVars, result, cs, req, settings, llm_providers, call>>

InitClient ==
    /\ conversations = <<>>
    /\ messages_collection = <<>>
    /\ clock = 0
    /\ nextConvId = 1
    /\ nextMsgId = 1
    /\ result = Response("", "", NoConv, "", {}, {})
    /\ cs = [t \in Tasks |-> Idle]
    /\ req = [r \in Requests |-> NotStarted]
    /\ settings \in [openai_api_key : {"", "sk-openai"},
                      anthropic_api_key : {"", "mock", "sk-anthropic"}]
    /\ llm_providers = DefaultProviders
    /\ call = NoCall
    /\ service \in {[NoService EXCEPT !.sdk = b] : b \in BOOLEAN}

NextClient ==
    \/ Start
    \/ Stop
    \/ \E r \in Requests, m \in StreamModels : Invoke(r, m)
    \/ \E r \in Requests : Finish(r)

SpecClient == InitClient /\ [][NextClient]_vars

InitEngine ==
    /\ conversations = <<>>
    /\ messages_collection = <<>>
    /\ clock = 0
    /\ nextConvId = 1
    /\ nextMsgId = 1
    /\ result = Response("", "", NoConv, "", {}, {})
    /\ cs = [t \in Tasks |-> Idle]
    /\ req = [r \in Requests |-> NotStarted]
    /\ settings \in [openai_api_key : {"", "sk-openai"},
                      anthropic_api_key : {"", "mock", "sk-anthropic"}]
    /\ llm_providers = DefaultProviders
    /\ call = NoCall
    /\ service = NoService

EngineCalls ==
    \/ \E id \in ProviderIds, doc \in ProviderDocs : AddProvider(id, doc)
    \/ \E id \in ProviderIds : DeleteProvider(id)
    \/ \E m \in EngineModels : Resolve(m)
    \/ \E m \in StreamModels, msgs \in Contexts : StreamChat(m, msgs)

SpecEngine == InitEngine /\ [][EngineCalls]_vars

\* ------------------------------------------------------------------- specs
Init ==
    /\ conversations = <<>>
    /\ messages_collection = <<>>
    /\ clock = 0
    /\ nextConvId = 1
    /\ nextMsgId = 1
    /\ result = Response("", "", NoConv, "", {}, {})
    /\ cs = [t \in Tasks |-> Idle]
    /\ req = [r \in Requests |-> NotStarted]
    /\ settings = [openai_api_key |-> "", anthropic_api_key |-> ""]
    /\ llm_providers = DefaultProviders
    /\ call = NoCall
    /\ service = NoService

TargetIds == 1..MaxConvs

\* the store-level calls run in one task; they interleave with every
\* single-step call of ChatService
StoreTasks == {"t1"}

\* the two append paths, with store failures between the steps
Appends ==
    \/ \E u \in Users : ChatCreate(u)
    \/ \E u \in Users : CSCreate(u)
    \/ \E u \in Users, c \in TargetIds : ChatAddMessage(u, c, "user", Hello)
    \/ \E t \in StoreTasks, u \in Users, c \in TargetIds : CSAddMessage(t, u, c, "user")
    \/ \E t \in StoreTasks : CSInsertMessage(t)
    \/ \E t \in StoreTasks : CSCountMessage(t)
    \/ \E t \in StoreTasks : CSStoreFailure(t)

\* user-scoped reads of both services
Reads ==
    \/ \E u \in Users, c \in TargetIds : ChatGet(u, c)
    \/ \E u \in Users, b \in BOOLEAN : ChatList(u, b)
    \/ \E u \in Users, q \in {Placeholder, Hello} : ChatSearch(u, q)
    \/ \E u \in Users, c \in TargetIds : CSGet(u, c)
    \/ \E t \in StoreTasks, u \in Users, c \in TargetIds : CSGetMessages(t, u, c)
    \/ \E t \in StoreTasks : CSFindMessages(t)

\* user-scoped writes of both services other than the appends
Writes ==
    \/ \E u \in Users, c \in TargetIds : ChatUpdate(u, c, Renamed)
    \/ \E u \in Users, c \in TargetIds : CSUpdate(u, c, Renamed)
    \/ \E u \in Users, c \in TargetIds : ChatPin(u, c, TRUE)
    \/ \E u \in Users, c \in TargetIds : ChatFavorite(u, c, TRUE)
    \/ \E u \in Users, c \in TargetIds : ChatArchive(u, c, TRUE)
    \/ \E u \in Users, c \in TargetIds, tag \in Tags : ChatAddTag(u, c, tag)
    \/ \E u \in Users, c \in TargetIds, tag \in Tags : ChatRemoveTag(u, c, tag)
    \/ \E u \in Users, c \in TargetIds, m \in 1..MaxClock : ChatUpdateMessage(u, c, m, Edited)
    \/ \E u \in Users, c \in TargetIds, m \in 1..MaxClock : ChatDeleteMessage(u, c, m)
    \/ \E u \in Users, c \in TargetIds : ChatDelete(u, c)
    \/ \E t \in StoreTasks, u \in Users, c \in TargetIds : CSDeleteConversation(t, u, c)
    \/ \E t \in StoreTasks : CSDeleteMessages(t)

\* the two log endpoints
LogCalls ==
    \/ \E u \in Users, c \in TargetIds : LogUserMessage(u, c, Hello)
    \/ \E u \in Users, c \in TargetIds : LogAssistantMessage(u, c, Hello)

NextAppend == Appends \/ LogCalls

SpecAppend == Init /\ [][NextAppend]_vars

Next == Appends \/ Reads \/ Writes

Spec == Init /\ [][Next]_vars

\* the message calls of ChatService on the conversations of the users;
\* delete_message names any message id, held by the conversation or not
NextMessages ==
    \/ \E u \in Users : ChatCreate(u)
    \/ \E u \in Users, c \in TargetIds, role \in Roles :
          ChatAddMessage(u, c, role, Hello)
    \/ \E u \in Users, c \in TargetIds, m \in 1..MaxClock : ChatDeleteMessage(u, c, m)

SpecMessages == Init /\ [][NextMessages]_vars

\* ConversationService calls of two tasks on the conversations of the users:
\* every await of add_message and delete_conversation is a step of its own
NextRace ==
    \/ \E u \in Users : CSCreate(u)
    \/ \E t \in Tasks, u \in Users, c \in TargetIds : CSAddMessage(t, u, c, "user")
    \/ \E t \in Tasks : CSInsertMessage(t)
    \/ \E t \in Tasks : CSCountMessage(t)
    \/ \E t \in Tasks, u \in Users, c \in TargetIds : CSDeleteConversation(t, u, c)
    \/ \E t \in Tasks : CSDeleteMessages(t)

SpecRace == Init /\ [][NextRace]_vars

InitChat ==
    /\ conversations = <<>>
    /\ messages_collection = <<>>
    /\ clock = 0
    /\ nextConvId = 1
    /\ nextMsgId = 1
    /\ result = Response("", "", NoConv, "", {}, {})
    /\ cs = [t \in Tasks |-> Idle]
    /\ req = [r \in Requests |-> NotStarted]
    /\ settings \in {[openai_api_key |-> "", anthropic_api_key |-> ""],
                      [openai_api_key |-> "sk-openai", anthropic_api_key |-> "sk-anthropic"]}
    /\ llm_providers = DefaultProviders
    /\ call = NoCall
    /\ service = NoService

\* the inputs of a completion request: the first request is sent by u1 with
\* any model, expert and mode, to a provider that may fail; the second one
\* names conversation 1, streams, and meets a healthy provider
RequestUsers(r) == IF r = "r1" THEN {"u1"} ELSE Users
RequestModels(r) == IF r = "r1" THEN Models ELSE {DefaultModel}
RequestExperts(r) == IF r = "r1" THEN Experts ELSE {""}
RequestModes(r) == IF r = "r1" THEN BOOLEAN ELSE {TRUE}
RequestHealth(r) == IF r = "r1" THEN {FALSE} ELSE {TRUE}

\* completion requests; the provider may fail, the client may disconnect
Completions ==
    \/ \E u \in RequestUsers("r1"), m \in RequestModels("r1"),
          e \in RequestExperts("r1"), st \in RequestModes("r1"),
          h \in RequestHealth("r1") :
            ResolveCreate("r1", u, m, e, st, h)
    \/ \E r \in Requests : \E u \in RequestUsers(r), c \in {1},
          m \in RequestModels(r), e \in RequestExperts(r),
          st \in RequestModes(r), h \in RequestHealth(r) :
            ResolveLoad(r, u, c, m, e, st, h)
    \/ \E r \in Requests : RecordUserMessage(r)
    \/ \E r \in Requests : BuildContext(r)
    \/ \E r \in Requests : StreamReply(r)
    \/ \E r \in Requests : PersistAssistantMessage(r)
    \/ \E r \in Requests : GenerateTitle(r)
    \/ \E r \in Requests : UpdateTitle(r)
    \/ \E r \in Requests : ClientDisconnect(r)

\* the store and configuration calls of a completion request raise
CallFailures ==
    \/ \E r \in Requests : RecordFails(r)
    \/ \E r \in Requests : AgentLookupFails(r)
    \/ \E r \in Requests : PersistFails(r)
    \/ \E r \in Requests : UpdateTitleFails(r)
    \/ \E r \in Requests : TitleCallFails(r)

SpecChat == InitChat /\ [][Completions]_vars

NextChatFaults == Completions \/ CallFailures

\* two streaming requests of u1 on one conversation, the user message built
\* and stored in two steps
NextStamp ==
    \/ ResolveCreate("r1", "u1", DefaultModel, "", TRUE, TRUE)
    \/ \E r \in Requests : ResolveLoad(r, "u1", 1, DefaultModel, "", TRUE, TRUE)
    \/ \E r \in Requests : BuildUserMessage(r)
    \/ \E r \in Requests : StoreUserMessage(r)
    \/ \E r \in Requests : BuildContext(r)
    \/ \E r \in Requests : StreamReply(r)
    \/ \E r \in Requests : PersistAssistantMessage(r)
    \/ \E r \in Requests : GenerateTitle(r)
    \/ \E r \in Requests : UpdateTitle(r)

SpecStamp == InitChat /\ [][NextStamp]_vars

SpecChatFaults == InitChat /\ [][NextChatFaults]_vars

\* ------------------------------------------------------- title functions
MaxText == 31      \* characters of a provider output or of a user message

\* a text of n characters
Body(n) == [i \in 1..n |-> "a"]

\* what a provider puts around a title: whitespace, quotes, title marks
Leading == {<<>>, <<" ", "\"", "'", "<<">>}
Trailing == {<<>>, <<">>", "'", "\"", "\n">>}

\* text lengths around the two limits
TextLengths ==
    {0, 1, FallbackLimit, FallbackLimit + 1, TitleLimit} \cup ((TitleLimit + 1)..MaxText)

\* the texts a provider can answer a title call with
ProviderTexts ==
    {pre \o Body(n) \o post : pre \in Leading, post \in Trailing, n \in TextLengths}

UserMessages == {Body(n) : n \in TextLengths}

\* _generate_title(user_message, ai_response, model), the provider having
\* answered its stream_chat call with the text out
GenerateTitleCall(out, user_message) ==
    /\ call' = [NoCall EXCEPT !.op = "_generate_title", !.status = "ok",
                              !.text = TitleFrom(out, user_message)]
    /\ UNCHANGED <<storeVars, result, cs, req, settings, llm_providers, service>>

\* generate_conversation_title, lines 269-271: clean the text, cut it
EndpointTitle(out) ==
    LET title == Strip(Strip(Strip(Strip(out, Whitespace), {"\""}), {"'"}), Whitespace)
    IN  IF Len(title) > TitleLimit THEN Prefix(title, TitleLimit) \o Ellipsis ELSE title

\* POST /conversations/{id}/generate-title, the provider having answered
\* with the text out: ownership check, title, update of the conversation
GenerateConversationTitle(user, conv, out) ==
    /\ clock < MaxClock
    /\ IF Matches(conv, user)
       THEN /\ conversations' = [conversations EXCEPT ![conv] =
                  Touch([@ EXCEPT !.title = EndpointTitle(out)])]
            /\ clock' = clock + 1
            /\ call' = [NoCall EXCEPT !.op = "generate_title", !.status = "ok",
                                      !.text = EndpointTitle(out)]
       ELSE /\ call' = [NoCall EXCEPT !.op = "generate_title", !.status = "http_500"]
            /\ UNCHANGED <<conversations, clock>>
    /\ UNCHANGED <<messages_collection, nextConvId, nextMsgId, result, cs, req,
                   settings, llm_providers, service>>

\* the title functions on every provider output and user message
TitleCalls ==
    \/ \E out \in ProviderTexts, um \in UserMessages : GenerateTitleCall(out, um)
    \/ \E u \in Users, c \in TargetIds, out \in ProviderTexts :
          GenerateConversationTitle(u, c, out)

\* u1 has created a conversation
InitTitle ==
    /\ clock = 1
    /\ conversations =
          [c \in {1} |-> [NewConversation("u1", Placeholder)
                            EXCEPT !.created_at = 0, !.updated_at = 0]]
    /\ messages_collection = <<>>
    /\ nextConvId = 2
    /\ nextMsgId = 1
    /\ result = Response("create", "u1", 1, "ok", {1}, {})
    /\ cs = [t \in Tasks |-> Idle]
    /\ req = [r \in Requests |-> NotStarted]
    /\ settings = [openai_api_key |-> "", anthropic_api_key |-> ""]
    /\ llm_providers = DefaultProviders
    /\ call = NoCall
    /\ service = NoService

SpecTitle == InitTitle /\ [][TitleCalls]_vars

\* ------------------------------------------- a turn on a long conversation
MaxHistory == 12   \* messages the conversation holds before the turn

\* the conversation as earlier turns left it: n messages, user and assistant
\* in turn, message i stored at time i with a text of its own
EarlierMessages(n) ==
    [i \in 1..n |-> [id |-> i, role |-> IF i % 2 = 1 THEN "user" ELSE "assistant",
                     content |-> Body(i), created_at |-> i]]

InitContext ==
    /\ \E n \in 0..MaxHistory :
          /\ clock = n + 1
          /\ nextMsgId = n + 1
          /\ conversations =
                [c \in {1} |-> [NewConversation("u1", Renamed)
                                  EXCEPT !.created_at = 0, !.updated_at = n,
                                         !.messages = EarlierMessages(n),
                                         !.message_count = n]]
    /\ messages_collection = <<>>
    /\ nextConvId = 2
    /\ result = Response("", "", NoConv, "", {}, {})
    /\ cs = [t \in Tasks |-> Idle]
    /\ req = [r \in Requests |-> NotStarted]
    /\ settings \in {[openai_api_key |-> "", anthropic_api_key |-> ""],
                      [openai_api_key |-> "sk-openai", anthropic_api_key |-> "sk-anthropic"]}
    /\ llm_providers = DefaultProviders
    /\ call = NoCall
    /\ service = NoService

\* one completion request of u1, on that conversation or on a new one
NextContext ==
    \/ \E e \in Experts, st \in BOOLEAN :
          ResolveLoad("r1", "u1", 1, DefaultModel, e, st, TRUE)
    \/ \E e \in Experts, st \in BOOLEAN :
          ResolveCreate("r1", "u1", DefaultModel, e, st, TRUE)
    \/ RecordUserMessage("r1")
    \/ BuildContext("r1")
    \/ StreamReply("r1")
    \/ PersistAssistantMessage("r1")
    \/ GenerateTitle("r1")
    \/ UpdateTitle("r1")

SpecContext == InitContext /\ [][NextContext]_vars

\* ------------------------------------------------- the non-streaming call
\* a title event that carries its title under the key "content"
EventKeysTitleAsContent(e) ==
    CASE e.type = "token" -> {"content", "conversationId"}
      [] e.type = "title_generated" -> {"type", "content", "conversationId"}
      [] e.type = "error" -> {"error"}
      [] OTHER -> {}

\* the keys of the JSON object an event line carries (lines 456, 475, 483);
\* the [DONE] line carries no object
EventKeys(e) ==
    CASE e.type = "token" -> {"content", "conversationId"}
      [] e.type = "title_generated" -> {"type", "title", "conversationId"}
      [] e.type = "error" -> {"error"}
      [] OTHER -> {}

\* lines 489-499: the text the non-streaming call accumulates from the
\* event lines of event_generator
RECURSIVE NonStreamMessage(_)
NonStreamMessage(events) ==
    IF events = <<>> THEN <<>>
    ELSE (IF Head(events) # Done /\ "content" \in EventKeys(Head(events))
          THEN Head(events).content ELSE <<>>)
         \o NonStreamMessage(Tail(events))

\* lines 501-504: what the non-streaming call returns
NonStreamResponse(r) ==
    [conversation_id |-> req[r].conversation_id,
     message |-> NonStreamMessage(req[r].events)]

\* ---------------------------------------------------- sequential requests
MaxTurns == 2      \* completion requests sent one after the other

\* the handler of request r has returned and its response has ended
Returned(r) == req[r].pc \in {"done", "failed", "cancelled", "raised", "http_404", "http_500"}

\* completion requests that passed resolution so far (two message ids each)
TurnsStarted == (nextMsgId - 1) \div 2

\* the client sends its next requests once every response has ended
NextRequest ==
    /\ \A r \in Requests : Returned(r)
    /\ req' = [r \in Requests |-> NotStarted]
    /\ UNCHANGED <<storeVars, result, cs, settings, engineVars>>

\* request r is the next one to be sent: r1 first, r2 after r1 has returned
Turn(r) ==
    /\ TurnsStarted < MaxTurns
    /\ IF r = "r1" THEN req["r2"].pc = "new" ELSE Returned("r1")

\* completion requests sent one at a time by one user, each to a new
\* conversation or to a conversation that exists (created by an earlier
\* request or by the create call); the provider may fail the first one
Turns ==
    \/ \E u \in {"u1"} : ChatCreate(u)
    \/ \E r \in Requests : \E st \in BOOLEAN, h \in RequestHealth(r) :
          Turn(r) /\ ResolveCreate(r, "u1", "", "", st, h)
    \/ \E r \in Requests : \E c \in TargetIds, st \in BOOLEAN, h \in RequestHealth(r) :
          Turn(r) /\ ResolveLoad(r, "u1", c, "", "", st, h)
    \/ \E r \in Requests : RecordUserMessage(r)
    \/ \E r \in Requests : BuildContext(r)
    \/ \E r \in Requests : StreamReply(r)
    \/ \E r \in Requests : PersistAssistantMessage(r)
    \/ \E r \in Requests : GenerateTitle(r)
    \/ \E r \in Requests : UpdateTitle(r)
    \/ NextRequest

SpecTurns == InitChat /\ [][Turns]_vars

\* ------------------------------------------------------------------ claims
\* number of stored messages that belong to conversation c, on both paths
StoredMessages(c) == Len(conversations[c].messages) + Len(MessagesOf(c))

NoAppendInFlight == \A t \in Tasks : cs[t].pc = "idle"

\* C1: once every append has finished (returned or failed), each
\* conversation's message_count equals the number of its stored messages.
C1_CountEqualsStored ==
    NoAppendInFlight =>
        \A c \in ConvIds : conversations[c].message_count = StoredMessages(c)

\* no stored message references conversation c in the next state
NoMessageLeft(c) ==
    /\ c \notin DOMAIN conversations'
    /\ \A i \in 1..Len(messages_collection') :
          messages_collection'[i].conversation_id # c

\* C2: when a delete of conversation c returns true, through either delete
\* entry point, no stored message references c.
C2_DeleteLeavesNoMessages ==
    [][ /\ \A u \in Users, c \in TargetIds :
              (ChatDelete(u, c) /\ result'.status = "ok") => NoMessageLeft(c)
        /\ \A t \in Tasks :
              CSDeleteMessages(t) => NoMessageLeft(cs[t].conv) ]_vars

Owner(c) == conversations[c].user_id

\* the user-scoped writes of user u on conversation c
WriteBy(u, c) ==
    \/ ChatUpdate(u, c, Renamed) \/ CSUpdate(u, c, Renamed)
    \/ ChatPin(u, c, TRUE) \/ ChatFavorite(u, c, TRUE) \/ ChatArchive(u, c, TRUE)
    \/ \E tag \in Tags : ChatAddTag(u, c, tag) \/ ChatRemoveTag(u, c, tag)
    \/ \E m \in 1..MaxClock : ChatUpdateMessage(u, c, m, Edited) \/ ChatDeleteMessage(u, c, m)
    \/ ChatDelete(u, c)
    \/ ChatAddMessage(u, c, "user", Hello)
    \/ \E t \in Tasks : CSAddMessage(t, u, c, "user") \/ CSDeleteConversation(t, u, c)

\* the user-scoped reads of user u that name conversation c
ReadBy(u, c) ==
    \/ ChatGet(u, c) \/ CSGet(u, c)
    \/ \E t \in Tasks : CSGetMessages(t, u, c)

\* the user-scoped reads of user u that return a list
ListBy(u) ==
    \/ \E b \in BOOLEAN : ChatList(u, b)
    \/ \E q \in {Placeholder, Hello} : ChatSearch(u, q)

\* C3: a user-scoped call of user u that names a conversation of another
\* user reports not-found and changes nothing; a list read of u omits that
\* conversation; a multi-step call past its ownership check runs for the owner.
\* (Every call leaves its caller and target in result.)
C3_UserIsolation ==
    [][ /\ \A c \in ConvIds : Owner(c) # result'.user =>
              /\ (result'.conv = c /\ (WriteBy(result'.user, c) \/ ReadBy(result'.user, c))) =>
                    /\ result'.status = "not_found"
                    /\ result'.convs = {} /\ result'.msgs = {}
                    /\ conversations' = conversations
                    /\ messages_collection' = messages_collection
              /\ (result'.user \in Users /\ ListBy(result'.user)) => c \notin result'.convs
        /\ \A t \in Tasks : (cs[t].pc # "idle" /\ cs[t].conv \in ConvIds)
                                => Owner(cs[t].conv) = cs[t].user ]_vars

\* a write of one user on another user's conversation, which holds messages
\* of both append paths, was answered
C3_Witness ==
    /\ result.conv \in ConvIds
    /\ Owner(result.conv) # result.user
    /\ result.status = "not_found"
    /\ conversations[result.conv].messages # <<>>
    /\ MessagesOf(result.conv) # <<>>

\* ------------------------------------------------- claims on the pipeline
Last(s) == s[Len(s)]

Types(events) == {events[i].type : i \in 1..Len(events)}

\* the fragments of the token events, in order
Tokens(events) ==
    LET IsToken(e) == e.type = "token"
        toks == SelectSeq(events, IsToken)
    IN  [i \in 1..Len(toks) |-> toks[i].content]

\* the conversation of request r holds the message with this id, role, content
Holds(r, id, role, content) ==
    /\ req[r].conversation_id \in ConvIds
    /\ \E i \in 1..Len(conversations[req[r].conversation_id].messages) :
          LET m == conversations[req[r].conversation_id].messages[i]
          IN  m.id = id /\ m.role = role /\ m.content = content

UserMessageStored(r) == Holds(r, req[r].user_msg_id, "user", req[r].message)

AssistantMessageStored(r) ==
    Holds(r, req[r].ai_msg_id, "assistant", req[r].full_response)

\* the event sequence of request r has ended
Ended(r) == req[r].pc \in {"done", "failed", "cancelled", "raised"}

\* C4: a completion request that names a conversation which is absent or
\* owned by another user ends in the not-found error; the resolution step
\* changes nothing in the store, and the request has created nothing, stored
\* nothing, emitted nothing and has not invoked the provider.
C4_NotFoundNoSideEffects ==
    /\ [][ \A r \in Requests :
             (/\ req[r].pc = "new" /\ req'[r].pc # "new"
              /\ ~req'[r].is_new_conversation
              /\ ~Matches(req'[r].conversation_id, req'[r].user))
             => /\ req'[r].pc = "http_404"
                /\ UNCHANGED storeVars ]_vars
    /\ [][ \A r \in Requests : req[r].pc = "http_404" => req'[r] = req[r] ]_vars
    /\ [](\A r \in Requests : req[r].pc = "http_404" =>
             /\ req[r].reply_calls = 0 /\ req[r].gen = NoStream
             /\ req[r].events = <<>>
             /\ req[r].user_msg_id = 0 /\ req[r].ai_msg_id = 0)

\* a request of one user named the conversation of another user, which
\* holds messages, and ended in the not-found error
C4_Witness ==
    \E r \in Requests :
        /\ req[r].pc = "http_404"
        /\ req[r].conversation_id \in ConvIds
        /\ Owner(req[r].conversation_id) # req[r].user
        /\ conversations[req[r].conversation_id].messages # <<>>

C6_AssistantMessageForEveryTurn ==
    \A r \in Requests :
        (Ended(r) /\ UserMessageStored(r)) => AssistantMessageStored(r)

\* C7: a transport error or a non-200 answer never raises out of stream_chat;
\* it shows as one fragment that starts with "Error: ", the last one.
C7_ErrorFragmentTerminal ==
    \A r \in Requests :
        LET g == req[r].gen
            toks == Tokens(req[r].events)
        IN  /\ ~g.raised
            /\ g.upstream # "" =>
                 /\ toks # <<>>
                 /\ IsErrorFragment(Last(toks))
                 /\ \A i \in 1..(Len(toks) - 1) : ~IsErrorFragment(toks[i])
                 /\ g.phase \in {"failed", "closed"}

\* the upstream failed after a fragment was emitted, and the stream ended
C7_Witness ==
    \E r \in Requests :
        /\ req[r].gen.upstream = "failure"
        /\ req[r].gen.phase = "closed"
        /\ Len(Tokens(req[r].events)) >= 2

\* the reply call of request r was answered with HTTP 500
Answered500(r) == req[r].gen.upstream = "status_500"

\* C8: after an HTTP 500 on the reply call the request does not end in error;
\* when it ends, its last event is [DONE], a token event carries the error
\* fragment and the assistant message stored for the turn ends with it.
C8_Http500StillDone ==
    \A r \in Requests : Answered500(r) =>
        /\ req[r].pc \notin {"failed", "raised", "http_500"}
        /\ \E i \in 1..Len(req[r].events) :
              /\ req[r].events[i].type = "token"
              /\ IsErrorFragment(req[r].events[i].content)
        /\ req[r].pc \in {"title", "title_update", "done"} =>
              /\ AssistantMessageStored(r)
              /\ IsErrorFragment(req[r].full_response)
        /\ req[r].pc = "done" =>
              /\ Last(req[r].events) = Done
              /\ "error" \notin Types(req[r].events)

\* a request whose reply call met HTTP 500 is done, after its title event
C8_Witness ==
    \E r \in Requests :
        /\ Answered500(r)
        /\ req[r].pc = "done"
        /\ "title_generated" \in Types(req[r].events)

\* C9: after conversation resolution no request ends in error: neither in
\* an HTTP error nor in a broken event sequence, and an ended event
\* sequence holds no error event and ends with its only [DONE].
C9_OnlyResolutionFails ==
    \A r \in Requests :
        /\ req[r].pc \notin {"http_500", "raised"}
        /\ req[r].pc \in {"done", "failed"} =>
              /\ "error" \notin Types(req[r].events)
              /\ Last(req[r].events) = Done
              /\ \A i \in 1..(Len(req[r].events) - 1) : req[r].events[i] # Done

\* C10: when storing the assistant message fails after fragments were
\* streamed, no error event is emitted
\* and the request does not end without [DONE].
C10_PersistFailureNotSurfaced ==
    [][ \A r \in Requests : (PersistFails(r) /\ Tokens(req[r].events) # <<>>) =>
          /\ "error" \notin Types(req'[r].events)
          /\ req'[r].pc # "failed" ]_vars

\* ------------------------------------------------ claims on the title turn
\* the title events of an event sequence
TitleEvents(events) ==
    LET IsTitle(e) == e.type = "title_generated" IN SelectSeq(events, IsTitle)

\* request r is a first turn: its conversation held no messages at resolution
FirstTurn(r) == req[r].history = <<>>

\* C11: a finished first turn of a conversation (no messages yet, whoever
\* created it) emitted exactly one title event and replaced the placeholder
\* title; a later turn emits no title event and leaves the title unchanged.
C11_TitleOnFirstTurnOnly ==
    /\ [](\A r \in Requests : req[r].pc = "done" =>
             IF FirstTurn(r)
             THEN /\ Len(TitleEvents(req[r].events)) = 1
                  /\ conversations[req[r].conversation_id].title # Placeholder
             ELSE TitleEvents(req[r].events) = <<>>)
    /\ [][ \A r \in Requests :
             (req[r].pc \notin {"new", "http_404"} /\ ~FirstTurn(r)) =>
                conversations'[req[r].conversation_id].title
                    = conversations[req[r].conversation_id].title ]_vars

\* request r has come to its title generation
TitleTurn(r) == req[r].is_new_conversation /\ req[r].full_response # <<>>

\* C12: a failure during title generation (the provider answering with an
\* error, the title completion raising, the title update raising) does not
\* fail the request: no error event, the assistant message stays stored,
\* and the finished event sequence ends with [DONE].
C12_TitleFailureSwallowed ==
    /\ [][ \A r \in Requests :
             (UpdateTitleFails(r) \/ TitleCallFails(r) \/ GenerateTitle(r)) =>
                /\ req'[r].pc \in {"title_update", "done"}
                /\ "error" \notin Types(req'[r].events)
                /\ conversations' = conversations ]_vars
    /\ [](\A r \in Requests :
             (TitleTurn(r) /\ req[r].pc \in {"title", "title_update", "done"}) =>
                /\ AssistantMessageStored(r)
                /\ "error" \notin Types(req[r].events)
                /\ req[r].pc = "done" => Last(req[r].events) = Done)

\* the title update of a request failed after the provider had answered the
\* title call with an error: the request is done, without title event
C12_Witness ==
    \E r \in Requests :
        /\ req[r].pc = "done" /\ TitleTurn(r)
        /\ IsErrorFragment(req[r].new_title)
        /\ TitleEvents(req[r].events) = <<>>
        /\ Last(req[r].events) = Done
        /\ AssistantMessageStored(r)

QuoteMarks == {"\"", "'", "<<", ">>"}

\* C13: every title that _generate_title returns (fallback included) and
\* that the generate-title endpoint stores and returns has at most 30
\* characters and no quote or title mark around it.
C13_TitleAtMostThirty ==
    (call.op \in {"_generate_title", "generate_title"} /\ call.status = "ok") =>
        /\ Len(call.text) <= TitleLimit
        /\ call.text # <<>> =>
              (call.text[1] \notin QuoteMarks /\ Last(call.text) \notin QuoteMarks)

\* ---------------------------------------- claims on the non-streaming call
RECURSIVE Concat(_)
Concat(texts) == IF texts = <<>> THEN <<>> ELSE Head(texts) \o Concat(Tail(texts))

\* what a stored conversation holds, apart from ids and timestamps
Shape(c) ==
    [title |-> conversations[c].title,
     message_count |-> conversations[c].message_count,
     messages |-> [i \in 1..Len(conversations[c].messages) |->
                     [role |-> conversations[c].messages[i].role,
                      content |-> conversations[c].messages[i].content]]]

\* what the events of a sequence carry, apart from the conversation id
Carried(events) ==
    [i \in 1..Len(events) |-> [type |-> events[i].type, content |-> events[i].content]]

\* requests r and q are the same request on the same store state
SameRequest(r, q) ==
    /\ req[r].user = req[q].user /\ req[r].message = req[q].message
    /\ req[r].model = req[q].model /\ req[r].expert_id = req[q].expert_id
    /\ req[r].is_new_conversation = req[q].is_new_conversation
    /\ req[r].messages = req[q].messages

\* C14: the non-streaming call returns the conversation id and the in-order
\* concatenation of the token contents; compared with a streaming call of
\* the same request on the same store state to which the provider delivered
\* the same fragments, it made the same store writes in the same order and
\* left the same conversation.
C14_NonStreamSameMachine ==
    \A q \in Requests : (req[q].pc = "done" /\ ~req[q].stream) =>
        /\ NonStreamResponse(q).message = Concat(Tokens(req[q].events))
        /\ NonStreamResponse(q).message = req[q].full_response
        /\ NonStreamResponse(q).conversation_id \in ConvIds
        /\ Holds(q, req[q].ai_msg_id, "assistant", NonStreamResponse(q).message)
        /\ \A r \in Requests :
              (/\ req[r].pc = "done" /\ req[r].stream
               /\ req[r].conversation_id # req[q].conversation_id
               /\ SameRequest(r, q)
               /\ Tokens(req[r].events) = Tokens(req[q].events)
               /\ req[r].new_title = req[q].new_title)
              => /\ req[r].writes = req[q].writes
                 /\ Carried(req[r].events) = Carried(req[q].events)
                 /\ Shape(req[r].conversation_id) = Shape(req[q].conversation_id)
                 /\ NonStreamResponse(q).message = Concat(Tokens(req[r].events))

\* a streaming and a non-streaming call of the same request, each on a new
\* conversation, got the same two fragments and the same title
C14_Witness ==
    \E r, q \in Requests :
        /\ req[r].pc = "done" /\ req[r].stream
        /\ req[q].pc = "done" /\ ~req[q].stream
        /\ SameRequest(r, q)
        /\ Len(Tokens(req[r].events)) = 2
        /\ Tokens(req[r].events) = Tokens(req[q].events)
        /\ TitleEvents(req[r].events) # <<>> /\ TitleEvents(req[q].events) # <<>>
        /\ req[r].new_title = req[q].new_title

\* ------------------------------------------------ claims on sequential turns
RECURSIVE SumCounts(_)
SumCounts(ids) ==
    IF ids = {} THEN 0
    ELSE LET c == CHOOSE x \in ids : TRUE
         IN  conversations[c].message_count + SumCounts(ids \ {c})

\* C15: after n completion requests sent one after the other, each finished
\* before the next starts, the conversations hold 2n messages in all, every
\* message_count is the length of its list, and each list alternates user,
\* assistant in timestamp order; a new conversation holds after its first
\* request exactly the sent text and the reply.
C15_SequentialTurns ==
    /\ (\A r \in Requests : req[r].pc \in {"new", "done", "http_404"}) =>
          /\ SumCounts(ConvIds) = 2 * TurnsStarted
          /\ \A c \in ConvIds :
                LET ms == conversations[c].messages
                IN  /\ conversations[c].message_count = Len(ms)
                    /\ Len(ms) % 2 = 0
                    /\ \A i \in 1..Len(ms) :
                          ms[i].role = IF i % 2 = 1 THEN "user" ELSE "assistant"
                    /\ \A i \in 1..(Len(ms) - 1) : ms[i].created_at < ms[i + 1].created_at
    /\ \A r \in Requests :
          (/\ req[r].pc = "done" /\ req[r].is_new_conversation
           /\ Len(conversations[req[r].conversation_id].messages) <= 2)
          => Shape(req[r].conversation_id).messages
                = << [role |-> "user", content |-> req[r].message],
                     [role |-> "assistant", content |-> req[r].full_response] >>

\* two requests in a row on the conversation the first one created
C15_Witness ==
    /\ req["r1"].pc = "done" /\ req["r1"].is_new_conversation
    /\ req["r2"].pc = "done" /\ ~req["r2"].is_new_conversation
    /\ req["r2"].conversation_id = req["r1"].conversation_id
    /\ conversations[req["r1"].conversation_id].message_count = 4

\* ---------------------------------------------------- claims on the appends
\* an append by user u to conversation c, through a service or a log endpoint
AppendBy(u, c) ==
    \/ ChatAddMessage(u, c, "user", Hello)
    \/ \E t \in Tasks : CSAddMessage(t, u, c, "user")
    \/ LogUserMessage(u, c, Hello)
    \/ LogAssistantMessage(u, c, Hello)

\* C16: an append to a conversation that is absent or not owned by the
\* caller stores nothing, changes no conversation, and hands a failure to
\* its caller, never a success.
C16_AppendFailsVisibly ==
    [][ \A u \in Users, c \in TargetIds :
          (~Matches(c, u) /\ AppendBy(u, c)) =>
              /\ conversations' = conversations
              /\ messages_collection' = messages_collection
              /\ result'.status \in {"not_found", "error"} ]_vars

\* ---------------------------------------------------- claims on the engine
\* the stored providers that declare support for the model
Declaring(model) == {p \in DOMAIN llm_providers : model \in llm_providers[p].models}

StoredConfig(p, model) ==
    [api_key |-> llm_providers[p].apiKey, base_url |-> llm_providers[p].baseUrl,
     provider_name |-> llm_providers[p].name, model |-> model]

\* the environment fallback, chosen by the claude- prefix of the model name
EnvConfig(model) ==
    IF StartsWith(Chars(model), Chars("claude-"))
    THEN [api_key |-> settings.anthropic_api_key,
          base_url |-> "https://api.anthropic.com/v1",
          provider_name |-> "Anthropic (env)", model |-> model]
    ELSE [api_key |-> settings.openai_api_key,
          base_url |-> "https://api.openai.com/v1",
          provider_name |-> "OpenAI (env)", model |-> model]

\* C17: resolve returns, without raising, the configuration of a stored
\* provider that declares the model when there is one, else the stored
\* default provider with the model substituted (the stored documents carry
\* no default mark, so this case has no instance), else the environment
\* fallback chosen by the model-name prefix.
C17_ResolvePriority ==
    call.op = "resolve" =>
        /\ call.status = "ok"
        /\ IF Declaring(call.model) # {}
           THEN \E p \in Declaring(call.model) : call.cfg = StoredConfig(p, call.model)
           ELSE call.cfg = EnvConfig(call.model)

\* the name holds "anthropic" or "claude-", in any case of letters
NamesAnthropic(name) ==
    \/ Contains(Lower(Chars(name)), Chars("anthropic"))
    \/ Contains(Lower(Chars(name)), Chars("claude-"))

\* C18: stream_chat takes the Anthropic backend exactly when the provider
\* name, the base url or the model name holds "anthropic" or "claude-" as a
\* case-insensitive substring.
C18_RoutingBySubstring ==
    call.op = "stream_chat" =>
        ((call.backend = "anthropic") <=>
            \/ NamesAnthropic(call.cfg.provider_name)
            \/ NamesAnthropic(call.cfg.base_url)
            \/ NamesAnthropic(call.model))

\* C19: a model whose name starts with claude- and which no stored provider
\* declares is served by the Anthropic backend, whatever providers are
\* stored and whatever the environment keys are.
C19_ClaudePrefixTakesAnthropic ==
    (/\ call.op = "stream_chat"
     /\ StartsWith(Chars(call.model), Chars("claude-"))
     /\ Declaring(call.model) = {})
    => call.backend = "anthropic"

\* a claude- model was served with no Anthropic key but an OpenAI key in the
\* environment and a provider stored beside the default one
C19_Witness ==
    /\ call.op = "stream_chat"
    /\ call.model = "claude-3-5-sonnet"
    /\ call.backend = "anthropic"
    /\ settings.anthropic_api_key = "" /\ settings.openai_api_key # ""
    /\ "p1" \in DOMAIN llm_providers

\* two calls in a row with an empty resolved key were answered by the mock
\* for the same final message
SameFinalMessage ==
    /\ call.op = "stream_chat" /\ call.before # <<>>
    /\ call.mock /\ call.before.mock
    /\ call.cfg.api_key = "" /\ call.before.api_key = ""
    /\ Last(call.msgs).content = Last(call.before.msgs).content

\* C20 as stated: with an empty resolved key the engine answers by the mock,
\* and two mock answers for the same final user message are the same text,
\* whatever the model, the backend and the earlier messages are.
C20_MockByLastMessageOnly ==
    /\ (call.op = "stream_chat" /\ call.cfg.api_key = "") => call.mock
    /\ SameFinalMessage => call.text = call.before.text

\* C20 amended: with an empty resolved key the engine answers by the mock,
\* and two mock answers for the same final user message on the same backend
\* are the same text, whatever the model and the earlier messages are.
C20_MockByLastMessageAndBackend ==
    /\ (call.op = "stream_chat" /\ call.cfg.api_key = "") => call.mock
    /\ (SameFinalMessage /\ call.backend = call.before.backend)
          => call.text = call.before.text

\* two mock answers on the same backend for the same final message, for
\* different models and different earlier messages
C20_Witness ==
    /\ SameFinalMessage /\ call.backend = call.before.backend
    /\ call.cfg.api_key = ""
    /\ call.model # call.before.model
    /\ Len(call.msgs) # Len(call.before.msgs)


\* C21: every upstream provider stream a stream_chat invocation opened is
\* closed once the request that consumed it is over, on every exit path:
\* normal completion, upstream error, and abandonment by the consumer when
\* the client disconnects while the reply streams.
C21_ProviderStreamClosed ==
    \A r \in Requests :
        req[r].pc # "stream" => req[r].gen.phase \notin {"open", "leaked"}

\* the stored messages of conversation c that precede message mid
Earlier(c, mid) ==
    LET ms == conversations[c].messages
        at == CHOOSE i \in 1..Len(ms) : ms[i].id = mid
    IN  SubSeq(ms, 1, at - 1)

\* C22: the message list handed to the engine is the system prompt, then
\* the last min(10, n) of the n messages the conversation held before the
\* turn, in stored order, then the current user message, once.
C22_ContextWindow ==
    \A r \in Requests :
        (req[r].reply_calls > 0 /\ req[r].conversation_id \in ConvIds) =>
            LET h == Earlier(req[r].conversation_id, req[r].user_msg_id)
                n == Len(h)
                k == IF n < 10 THEN n ELSE 10
            IN  /\ Len(req[r].messages) = k + 2
                /\ req[r].messages[1] =
                      [role |-> "system", content |-> ContextPrompt(req[r].expert_id)]
                /\ \A i \in 1..k :
                      req[r].messages[1 + i] =
                          [role |-> h[n - k + i].role, content |-> h[n - k + i].content]
                /\ req[r].messages[k + 2] = [role |-> "user", content |-> req[r].message]

\* a turn on a conversation of twelve earlier messages was handed to the engine
C22_Witness ==
    /\ req["r1"].reply_calls = 1
    /\ Len(req["r1"].history) = 12
    /\ Len(req["r1"].messages) = 12
    /\ req["r1"].messages[2].content = Body(3)

\* C23: within one completion request the reply stream is invoked once;
\* every fragment it yields is forwarded as one token event and appended to
\* the accumulator in the same order, so the accumulated text, and the
\* assistant content stored from it, is the in-order concatenation of the
\* token events.
C23_StoredReplyIsTheTokens ==
    \A r \in Requests :
        /\ req[r].reply_calls <= 1
        /\ req[r].full_response = Concat(Tokens(req[r].events))
        /\ req[r].ai_msg_id # 0 =>
              /\ req[r].reply_calls = 1
              /\ Holds(r, req[r].ai_msg_id, "assistant", Concat(Tokens(req[r].events)))

\* a reply of two fragments was forwarded and stored
C23_Witness ==
    \E r \in Requests :
        /\ req[r].ai_msg_id # 0
        /\ Len(Tokens(req[r].events)) = 2
        /\ Tokens(req[r].events)[1] # <<>>
        /\ Holds(r, req[r].ai_msg_id, "assistant", req[r].full_response)

\* C24: under every interleaving of ConversationService.add_message with
\* delete_conversation, once the calls have finished every stored message
\* references a conversation that exists: an append whose ownership check
\* passed before the delete leaves no message behind.
C24_NoMessageOutlivesItsConversation ==
    (\A t \in Tasks : cs[t].pc = "idle") =>
        \A i \in 1..Len(messages_collection) :
            messages_collection[i].conversation_id \in ConvIds

\* C25: in every reachable state, two concurrent completion requests on one
\* conversation included, the stored order of a conversation's messages
\* agrees with their timestamps in ascending order.
C25_StoredOrderIsTimeOrder ==
    \A c \in ConvIds :
        \A i \in 1..(Len(conversations[c].messages) - 1) :
            conversations[c].messages[i].created_at
                <= conversations[c].messages[i + 1].created_at

\* C26: when the client disconnects while the reply streams and at least
\* one fragment has been accumulated, the accumulated text is stored as the
\* assistant message of the turn.
C26_PartialReplyStoredOnDisconnect ==
    [][ \A r \in Requests :
          (ClientDisconnect(r) /\ req[r].pc = "stream" /\ req[r].full_response # <<>>) =>
              /\ req[r].conversation_id \in DOMAIN conversations'
              /\ \E i \in 1..Len(conversations'[req[r].conversation_id].messages) :
                    LET m == conversations'[req[r].conversation_id].messages[i]
                    IN  m.role = "assistant" /\ m.content = req[r].full_response ]_vars

\* the invocations that began between start and stop and still stream
InWindow == {r \in Requests : service.inv[r].pc = "streaming" /\ service.inv[r].in_window}

C28_MalformedPayloadReported ==
    \A r \in Requests :
        req[r].gen.malformed =>
            /\ ~req[r].gen.raised
            /\ req[r].ai_msg_id # 0 =>
                  /\ \E i \in 1..Len(req[r].events) :
                        /\ req[r].events[i].type = "token"
                        /\ IsErrorFragment(req[r].events[i].content)
                  /\ \E i \in 1..Len(conversations[req[r].conversation_id].messages) :
                        LET m == conversations[req[r].conversation_id].messages[i]
                        IN  /\ m.id = req[r].ai_msg_id
                            /\ \E j \in 1..Len(m.content) : m.content[j] = ErrorPrefix

\* C29: after any sequence of ChatService.add_message and delete_message
\* calls, a delete_message with an id the conversation does not hold
\* included, message_count equals the length of the embedded message list
\* and is never negative.
C29_CountIsListLength ==
    \A c \in ConvIds :
        /\ conversations[c].message_count = Len(conversations[c].messages)
        /\ conversations[c].message_count >= 0

\* C30: when the provider call of the title generation fails (transport
\* error or non-200 answer), the title that is stored and emitted is the
\* fallback made from the user's message, never the provider's error text.
C30_TitleNeverErrorText ==
    /\ \A r \in Requests :
          /\ ~IsErrorFragment(req[r].new_title)
          /\ \A i \in 1..Len(req[r].events) :
                req[r].events[i].type = "title_generated" =>
                    ~IsErrorFragment(req[r].events[i].content)
    /\ \A c \in ConvIds : ~IsErrorFragment(conversations[c].title)


=============================================================================
